---- MODULE Spec2Model ----
(***************************************************************************)
(* Model of the construct package (OpenFluke/construct): the Cube handle   *)
(* (Spawn, Despawn, PulseWithModel, RefreshPosition), the Construct batch  *)
(* operations (GetAllCubeNames, DestroyAllCubes) and the StartPulsing      *)
(* scheduler.  A TCP connection is modelled by the ordered log of what the *)
(* client did on it; what the server sends back and whether a dial or a    *)
(* write succeeds are inputs of the actions.                               *)
(***************************************************************************)
EXTENDS Integers, Sequences, FiniteSets, TLC

\* ---------------------------------------------------------------- bounds
NumCubes == 2          \* distinct Cube handles
MaxOps == 3            \* client calls in one run of the sequential client
MaxList == 5           \* longest cube list the server reports
MaxFail == 1           \* failed despawn_cube writes in one DestroyAllCubes
MaxColl == 2           \* length of Construct.Cubes
MaxRounds == 3         \* ticks of one StartPulsing run
MaxOut == 2            \* largest component the decision function returns
MaxClamp == 1          \* largest clamp bound
MaxDelim == 3          \* longest delimiter
MaxMsg == 2            \* longest serialized message
MaxSends == 2          \* messages the peer sends on one connection
MaxRecv == 2           \* readResponse calls on one connection

CubeIds == 1..NumCubes

VARIABLES
    cubeName,    \* Cube.Name: the original name followed by its suffixes
    cubeConn,    \* Cube.conn: 0 is nil, otherwise an index of conns
    cubePos,     \* Cube.Position
    cubeClamp,   \* <<Cube.ClampMin, Cube.ClampMax>>
    conns,       \* every connection dialled so far: [open, by, cube, log]
    ret,         \* the last finished client call: [op, cube, err, out, reply, ...]
    nops,        \* client calls made
    hist,        \* history per cube: successful Spawns, Despawn calls, I/O errors
    dpc,         \* DestroyAllCubes: idle, request, read, despawn, done
    attempt,     \* its loop counter
    dconn,       \* the connection it dialled (0: none)
    dcubes,      \* cubes, the names parsed from the last list response
    dfails,      \* despawn_cube writes that failed so far
    dhist,       \* history: the responses read for get_cube_list, in order
    dstop,       \* history: the statement that ended the operation
    coll,        \* Construct.Cubes: cube handles in insertion order
    spc,         \* StartPulsing: idle, check, tick, wait, returned
    wg,          \* its sync.WaitGroup counter
    gpc,         \* where the goroutine of each entry of coll stands
    rounds,      \* history: rounds of pulses launched
    started,     \* history: pulses begun for each entry of coll
    cubeModel,   \* Cube.Model: the network object each cube is bound to
    modelIn,     \* per network object: the cube and position Forward was last fed
    goIn,        \* per goroutine: the input it gave to Forward
    goSrc,       \* history: what the output GetOutput gave it was computed from
    now,         \* the clock, in tick intervals since StartPulsing was entered
    dur,         \* duration, in tick intervals
    tickBuf,     \* ticks waiting in ticker.C (its buffer holds one)
    gdl,         \* per goroutine: the read deadline of its readResponse
    srvUp,       \* the server still answers get_cube_state
    delim,       \* the Delimiter of the connection the framing is run on
    wire,        \* bytes the peer has written that no conn.Read has returned yet
    rbuf,        \* readResponse: bytes its bufio.Reader holds, not yet returned
    builder,     \* readResponse: the strings.Builder
    rpc,         \* readResponse: idle, loop, done
    got,         \* history: bytes conn.Read has returned to this readResponse
    results,     \* history: the strings readResponse returned, in order
    rstop,       \* history: what ended the last readResponse
    sentLog      \* history: the messages the peer sent, in order

cubeVars == <<cubeName, cubeConn, cubePos, cubeClamp, conns, ret, nops, hist>>
destroyVars == <<dpc, attempt, dconn, dcubes, dfails, dhist, dstop>>
modelVars == <<cubeModel, modelIn, goIn, goSrc>>
clockVars == <<now, dur, tickBuf, gdl, srvUp>>
pulseVars == <<coll, spc, wg, gpc, rounds, started, modelVars, clockVars>>
wireVars == <<delim, wire, rbuf, builder, rpc, got, results, rstop, sentLog>>
vars == <<cubeVars, destroyVars, pulseVars, wireVars>>

\* ------------------------------------------------------- connection log
AuthEv == [kind |-> "auth", type |-> "secret+delimiter", ok |-> TRUE, arg |-> <<>>]
RecvEv == [kind |-> "recv", type |-> "", ok |-> TRUE, arg |-> <<>>]
CmdEv(type, arg) == [kind |-> "cmd", type |-> type, ok |-> TRUE, arg |-> arg]

\* net.Dial: a fresh open connection, nothing written on it yet
Dial(cs, by, c) == Append(cs, [open |-> TRUE, by |-> by, cube |-> c, log |-> <<>>])

\* conn.Write: the write is recorded with its outcome; on a closed
\* connection it fails whatever the network would have done
WriteOk(cs, id, ok) == ok /\ cs[id].open
ConnWrite(cs, id, ev, ok) ==
    [cs EXCEPT ![id].log = Append(@, [ev EXCEPT !.ok = WriteOk(cs, id, ok)])]

\* readResponse: one receive on the connection; it never returns an error
ConnRead(cs, id) == [cs EXCEPT ![id].log = Append(@, RecvEv)]

\* conn.Close
ConnClose(cs, id) == [cs EXCEPT ![id].open = FALSE]

\* The handshake every dialling function opens with: the write of
\* AuthPass + Delimiter, and, when it succeeded, one readResponse whose
\* result is dropped.
Authenticate(cs, id, authOk) == ConnWrite(cs, id, AuthEv, authOk)
HandshakeReadSkipped(cs, id) == cs
HandshakeRead(cs, id) == ConnRead(cs, id)

\* ------------------------------------------------------------ responses
\* What readResponse hands to json.Unmarshal: parse says whether it is a JSON
\* object; position and cubes are the values under those keys.  A JSON array
\* is a sequence of [num, v] (a number v, or something else) or of
\* [str, v] (a string naming cube v, or something else).
Num(v) == [num |-> TRUE, v |-> v]
NotNum == [num |-> FALSE, v |-> 0]
Str(v) == [str |-> TRUE, v |-> v]
NotStr == [str |-> FALSE, v |-> 0]
Garbage == [parse |-> FALSE, hasPos |-> FALSE, position |-> <<>>, cubes |-> <<>>]
StateObj(p) == [parse |-> TRUE, hasPos |-> TRUE, position |-> p, cubes |-> <<>>]
ListObj(l) == [parse |-> TRUE, hasPos |-> FALSE, position |-> <<>>, cubes |-> l]
NoKeyObj == [parse |-> TRUE, hasPos |-> FALSE, position |-> <<>>, cubes |-> <<>>]

StateReplies ==
    { Garbage, NoKeyObj,
      StateObj(<<Num(1), Num(2)>>),
      StateObj(<<Num(1), Num(2), Num(1), Num(2)>>),
      StateObj(<<Num(1), Num(2), Num(1)>>),
      StateObj(<<Num(2), NotNum, Num(2)>>) }

\* ---------------------------------------------------------------- world
\* The part of the state the Cube methods read and write.
World == [name |-> cubeName, conn |-> cubeConn, pos |-> cubePos, conns |-> conns]
Res(w, err) == [w |-> w, err |-> err]

\* ----------------------------------------------------------- Cube.Spawn
Suffix == "_BASE"
Rename(name) == Append(name, Suffix)

SpawnStore(w, c, id) == [w EXCEPT !.conn[c] = id]

SpawnOp(w, c, dialOk, authOk, sendOk) ==
    IF ~dialOk THEN Res(w, "connect failed")
    ELSE
      LET id == Len(w.conns) + 1
          w0 == [w EXCEPT !.conns = Authenticate(Dial(w.conns, "Spawn", c), id, authOk)]
      IN IF ~authOk
         THEN Res([w0 EXCEPT !.conns = ConnClose(w0.conns, id)], "auth failed")
         ELSE
           LET w1 == [w0 EXCEPT !.conns = HandshakeRead(w0.conns, id)]
               w2 == SpawnStore(w1, c, id)
               cmd == CmdEv("spawn_cube", <<w2.name[c], w2.pos[c]>>)
               w3 == [w2 EXCEPT !.conns = ConnWrite(w2.conns, w2.conn[c], cmd, sendOk)]
           IN IF ~WriteOk(w2.conns, w2.conn[c], sendOk)
              THEN Res([w3 EXCEPT !.conns = ConnClose(w3.conns, w3.conn[c])], "spawn failed")
              ELSE Res([w3 EXCEPT !.name[c] = Rename(@)], "nil")

\* --------------------------------------------------------- Cube.Despawn
DespawnOp(w, c, dialOk, authOk, sendOk) ==
    IF ~dialOk THEN Res(w, "connect failed")
    ELSE
      LET id == Len(w.conns) + 1
          w0 == [w EXCEPT !.conns = Authenticate(Dial(w.conns, "Despawn", c), id, authOk)]
      IN IF ~authOk
         THEN Res([w0 EXCEPT !.conns = ConnClose(w0.conns, id)], "auth failed")
         ELSE
           LET w1 == [w0 EXCEPT !.conns = HandshakeRead(w0.conns, id)]
               cmd == CmdEv("despawn_cube", <<w1.name[c]>>)
               w2 == [w1 EXCEPT !.conns = ConnClose(ConnWrite(w1.conns, id, cmd, sendOk), id)]
           IN Res(w2, IF sendOk THEN "nil" ELSE "send failed")

\* ------------------------------------------------- Cube.RefreshPosition
\* the component-wise overwrite: an element that is no number is skipped
Overwrite(pos, p) == [i \in 1..3 |-> IF p[i].num THEN p[i].v ELSE pos[i]]

\* json.Unmarshal of the response and the position it yields
ParsePositionEager(pos, raw) ==
    IF ~raw.parse THEN [pos |-> pos, err |-> "JSON parse error"]
    ELSE IF ~raw.hasPos \/ Len(raw.position) # 3
         THEN [pos |-> [i \in 1..3 |-> IF i <= Len(raw.position) /\ raw.position[i].num
                                       THEN raw.position[i].v ELSE pos[i]],
               err |-> "invalid position format"]
         ELSE [pos |-> Overwrite(pos, raw.position), err |-> "nil"]
ParsePosition(pos, raw) ==
    IF ~raw.parse THEN [pos |-> pos, err |-> "JSON parse error"]
    ELSE IF ~raw.hasPos \/ Len(raw.position) # 3
         THEN [pos |-> pos, err |-> "invalid position format"]
         ELSE [pos |-> Overwrite(pos, raw.position), err |-> "nil"]

RefreshOp(w, c, sendOk, reply) ==
    IF w.conn[c] = 0 THEN Res(w, "no connection")
    ELSE
      LET id == w.conn[c]
          w0 == [w EXCEPT !.conns = ConnWrite(w.conns, id, CmdEv("get_cube_state", <<>>), sendOk)]
      IN IF ~WriteOk(w.conns, id, sendOk) THEN Res(w0, "state request failed")
         ELSE
           LET w1 == [w0 EXCEPT !.conns = ConnRead(w0.conns, id)]
               p == ParsePosition(w1.pos[c], reply)
           IN Res([w1 EXCEPT !.pos[c] = p.pos], p.err)

\* -------------------------------------------------- Cube.PulseWithModel
ClampNoUpper(v, lo, hi) == IF v < lo THEN lo ELSE v
Clamp(v, lo, hi) ==
    LET v1 == IF v > hi THEN hi ELSE v
    IN IF v1 < lo THEN lo ELSE v1

Force(out, clamp) == [i \in 1..3 |-> Clamp(out[i], clamp[1], clamp[2])]

PulseOpGoesOn(w, c, clamp, out, sendOk, rsendOk, reply) ==
    IF w.conn[c] = 0 THEN Res(w, "no connection")
    ELSE IF Len(out) < 3 THEN Res(w, "model output too short")
    ELSE
      LET id == w.conn[c]
          cmd == CmdEv("apply_force", Force(out, clamp))
          w0 == [w EXCEPT !.conns = ConnWrite(w.conns, id, cmd, sendOk)]
      IN RefreshOp(w0, c, rsendOk, reply)
PulseOp(w, c, clamp, out, sendOk, rsendOk, reply) ==
    IF w.conn[c] = 0 THEN Res(w, "no connection")
    ELSE IF Len(out) < 3 THEN Res(w, "model output too short")
    ELSE
      LET id == w.conn[c]
          cmd == CmdEv("apply_force", Force(out, clamp))
          w0 == [w EXCEPT !.conns = ConnWrite(w.conns, id, cmd, sendOk)]
      IN IF ~WriteOk(w.conns, id, sendOk) THEN Res(w0, "apply_force failed")
         ELSE RefreshOp(w0, c, rsendOk, reply)

\* -------------------------------------------- Construct.GetAllCubeNames
\* toStringArray: the string items of the array, in order
RECURSIVE toStringArray(_)
toStringArray(v) ==
    IF v = <<>> THEN <<>>
    ELSE IF Head(v).str THEN <<Head(v).v>> \o toStringArray(Tail(v))
         ELSE toStringArray(Tail(v))

GetNamesOp(w, dialOk, authOk, sendOk, reply) ==
    IF ~dialOk THEN [w |-> w, err |-> "connect failed", names |-> <<>>]
    ELSE
      LET id == Len(w.conns) + 1
          w0 == [w EXCEPT !.conns = Authenticate(Dial(w.conns, "GetAllCubeNames", 0), id, authOk)]
      IN IF ~authOk
         THEN [w |-> [w0 EXCEPT !.conns = ConnClose(w0.conns, id)],
               err |-> "auth failed", names |-> <<>>]
         ELSE
           LET w1 == [w0 EXCEPT !.conns = HandshakeRead(w0.conns, id)]
               w2 == [w1 EXCEPT !.conns =
                         ConnWrite(w1.conns, id, CmdEv("get_cube_list", <<>>), sendOk)]
               w3 == [w2 EXCEPT !.conns = ConnRead(w2.conns, id)]
           IN IF ~sendOk
              THEN [w |-> [w2 EXCEPT !.conns = ConnClose(w2.conns, id)],
                    err |-> "list request failed", names |-> <<>>]
              ELSE IF ~reply.parse
                   THEN [w |-> [w3 EXCEPT !.conns = ConnClose(w3.conns, id)],
                         err |-> "JSON unmarshal error", names |-> <<>>]
                   ELSE [w |-> [w3 EXCEPT !.conns = ConnClose(w3.conns, id)],
                         err |-> "nil", names |-> toStringArray(reply.cubes)]

\* ------------------------------------------------ the sequential client
\* History kept per cube, to state the lifecycle the specification names:
\* Unspawned until a Spawn succeeds, Terminated once a Despawn has succeeded
\* or a write on the owned connection has failed, Active otherwise.
Life(h) ==
    IF h.despawned \/ h.ioerr THEN "Terminated"
    ELSE IF h.spawns > 0 THEN "Active" ELSE "Unspawned"

RECURSIVE TotalLog(_)
TotalLog(cs) == IF cs = <<>> THEN 0 ELSE Len(Head(cs).log) + TotalLog(Tail(cs))

IoErrors == {"apply_force failed", "state request failed"}

\* the results with which a RefreshPosition has read a response
ReadResults == {"nil", "JSON parse error", "invalid position format"}

Commit(r, op, c, out, reply) ==
    /\ cubeName' = r.w.name
    /\ cubeConn' = r.w.conn
    /\ cubePos' = r.w.pos
    /\ conns' = r.w.conns
    /\ nops' = nops + 1
    /\ ret' = [op |-> op, cube |-> c, err |-> r.err, out |-> out,
               life |-> Life(hist[c]), name0 |-> cubeName[c], pos0 |-> cubePos[c],
               io |-> TotalLog(r.w.conns) - TotalLog(conns),
               reply |-> IF op \in {"RefreshPosition", "PulseWithModel"}
                            /\ r.err \in ReadResults
                         THEN reply ELSE NoKeyObj]
    /\ hist' = [hist EXCEPT
                  ![c].spawns = IF op = "Spawn" /\ r.err = "nil" THEN @ + 1 ELSE @,
                  ![c].spawnFails = IF op = "Spawn" /\ r.err # "nil" THEN @ + 1 ELSE @,
                  ![c].despawned = @ \/ (op = "Despawn" /\ r.err = "nil"),
                  ![c].ioerr = @ \/ (r.err \in IoErrors)]
    /\ UNCHANGED <<cubeClamp, destroyVars, pulseVars, wireVars>>

Spawn(c, dialOk, authOk, sendOk) ==
    /\ nops < MaxOps /\ dpc \in {"idle", "done"}
    /\ Commit(SpawnOp(World, c, dialOk, authOk, sendOk), "Spawn", c, <<>>, NoKeyObj)

Despawn(c, dialOk, authOk, sendOk) ==
    /\ nops < MaxOps /\ dpc \in {"idle", "done"}
    /\ Commit(DespawnOp(World, c, dialOk, authOk, sendOk), "Despawn", c, <<>>, NoKeyObj)

RefreshPosition(c, sendOk, reply) ==
    /\ nops < MaxOps /\ dpc \in {"idle", "done"}
    /\ Commit(RefreshOp(World, c, sendOk, reply), "RefreshPosition", c, <<>>, reply)

PulseWithModel(c, out, sendOk, rsendOk, reply) ==
    /\ nops < MaxOps /\ dpc \in {"idle", "done"}
    /\ Commit(PulseOp(World, c, cubeClamp[c], out, sendOk, rsendOk, reply),
              "PulseWithModel", c, out, reply)

GetAllCubeNames(dialOk, authOk, sendOk, reply) ==
    /\ nops < MaxOps /\ dpc \in {"idle", "done"}
    /\ LET r == GetNamesOp(World, dialOk, authOk, sendOk, reply)
       IN Commit([w |-> r.w, err |-> r.err], "GetAllCubeNames", 1, r.names, NoKeyObj)

\* -------------------------------------------- Construct.DestroyAllCubes
maxRetries == 5

\* for attempt := 1; attempt <= maxRetries; attempt++
LoopGoesOnShort(att) == att < maxRetries
LoopGoesOn(att) == att <= maxRetries

\* the loop over cubes: one despawn_cube write per name, in order; a failed
\* write (that of name number failAt; 0: none fails) is reported and the
\* loop goes on
RECURSIVE DespawnLoopBreak(_, _, _, _)
DespawnLoopBreak(cs, id, names, failAt) ==
    IF names = <<>> THEN cs
    ELSE IF failAt = 1
         THEN ConnWrite(cs, id, CmdEv("despawn_cube", <<Head(names)>>), FALSE)
         ELSE DespawnLoopBreak(ConnWrite(cs, id, CmdEv("despawn_cube", <<Head(names)>>), TRUE),
                               id, Tail(names), failAt - 1)

RECURSIVE DespawnLoop(_, _, _, _)
DespawnLoop(cs, id, names, failAt) ==
    IF names = <<>> THEN cs
    ELSE DespawnLoop(ConnWrite(cs, id, CmdEv("despawn_cube", <<Head(names)>>), failAt # 1),
                     id, Tail(names), failAt - 1)

\* what follows a pass over the list: nothing but the loop's own increment
\* and test, whether or not a despawn_cube write failed
AfterPassAbort(att, failed) == IF failed THEN FALSE ELSE LoopGoesOn(att + 1)
AfterPass(att, failed) == LoopGoesOn(att + 1)

\* return, or the end of the function: the deferred conn.Close runs
DestroyEnd(cs, id, why) ==
    /\ conns' = ConnClose(cs, id)
    /\ dpc' = "done"
    /\ dstop' = why

DestroyStart(dialOk, authOk) ==
    /\ dpc = "idle"
    /\ nops < MaxOps
    /\ nops' = nops + 1
    /\ UNCHANGED <<dcubes, dfails, dhist>>
    /\ IF ~dialOk
       THEN /\ dpc' = "done" /\ dstop' = "connect failed"
            /\ UNCHANGED <<conns, dconn, attempt>>
       ELSE LET id == Len(conns) + 1
                c0 == Authenticate(Dial(conns, "DestroyAllCubes", 0), id, authOk)
            IN /\ dconn' = id
               /\ IF ~authOk
                  THEN DestroyEnd(c0, id, "auth failed") /\ UNCHANGED attempt
                  ELSE /\ conns' = HandshakeRead(c0, id)
                       /\ attempt' = 1
                       /\ IF LoopGoesOn(1)
                          THEN dpc' = "request" /\ UNCHANGED dstop
                          ELSE dpc' = "done" /\ dstop' = "exhausted"
    /\ UNCHANGED <<cubeName, cubeConn, cubePos, cubeClamp, ret, hist, pulseVars, wireVars>>

DestroyRequest(sendOk) ==
    /\ dpc = "request"
    /\ LET c0 == ConnWrite(conns, dconn, CmdEv("get_cube_list", <<>>), sendOk)
       IN IF ~sendOk
          THEN DestroyEnd(c0, dconn, "list request failed")
          ELSE conns' = c0 /\ dpc' = "read" /\ UNCHANGED dstop
    /\ UNCHANGED <<attempt, dconn, dcubes, dfails, dhist>>
    /\ UNCHANGED <<cubeName, cubeConn, cubePos, cubeClamp, ret, nops, hist, pulseVars, wireVars>>

DestroyRead(reply) ==
    /\ dpc = "read"
    /\ dhist' = Append(dhist, reply)
    /\ LET c0 == ConnRead(conns, dconn)
       IN IF ~reply.parse
          THEN DestroyEnd(c0, dconn, "unmarshal error") /\ UNCHANGED dcubes
          ELSE /\ dcubes' = toStringArray(reply.cubes)
               /\ IF Len(dcubes') = 0
                  THEN DestroyEnd(c0, dconn, "empty")
                  ELSE conns' = c0 /\ dpc' = "despawn" /\ UNCHANGED dstop
    /\ UNCHANGED <<attempt, dconn, dfails>>
    /\ UNCHANGED <<cubeName, cubeConn, cubePos, cubeClamp, ret, nops, hist, pulseVars, wireVars>>

DestroyDespawn(failAt) ==
    /\ dpc = "despawn"
    /\ failAt = 0 \/ dfails < MaxFail
    /\ dfails' = IF failAt = 0 THEN dfails ELSE dfails + 1
    /\ attempt' = attempt + 1
    /\ LET c0 == DespawnLoop(conns, dconn, dcubes, failAt)
       IN IF AfterPass(attempt, failAt # 0)
          THEN conns' = c0 /\ dpc' = "request" /\ UNCHANGED dstop
          ELSE DestroyEnd(c0, dconn, "exhausted")
    /\ UNCHANGED <<dconn, dcubes, dhist>>
    /\ UNCHANGED <<cubeName, cubeConn, cubePos, cubeClamp, ret, nops, hist, pulseVars, wireVars>>

\* the server's cube names are 1, 2, ...: the list of the first n
Names(n) == [i \in 1..n |-> Str(i)]
DestroyReplies ==
    { Garbage, ListObj(<<NotStr>>) } \cup { ListObj(Names(n)) : n \in 0..MaxList }

NextDestroy ==
    \/ \E dialOk, authOk \in BOOLEAN : DestroyStart(dialOk, authOk)
    \/ \E sendOk \in BOOLEAN : DestroyRequest(sendOk)
    \/ \E reply \in DestroyReplies : DestroyRead(reply)
    \* the despawn_cube write that fails: none (0), the first, or the last
    \/ \E failAt \in {0, 1, Len(dcubes)} : DestroyDespawn(failAt)

\* ------------------------------------------------ Construct.UnfreezeAll
maxRetriesUnfreeze == 3

UnfreezeGoesOn(att) == att <= maxRetriesUnfreeze

\* the loop over cubes: one freeze_cube write with freeze=false per name; a
\* failed write is reported and the loop goes on
RECURSIVE UnfreezeLoopBreak(_, _, _, _)
UnfreezeLoopBreak(cs, id, names, failAt) ==
    IF names = <<>> THEN cs
    ELSE IF failAt = 1
         THEN ConnWrite(cs, id, CmdEv("freeze_cube", <<Head(names), FALSE>>), FALSE)
         ELSE UnfreezeLoopBreak(ConnWrite(cs, id, CmdEv("freeze_cube", <<Head(names), FALSE>>), TRUE),
                                id, Tail(names), failAt - 1)

RECURSIVE UnfreezeLoop(_, _, _, _)
UnfreezeLoop(cs, id, names, failAt) ==
    IF names = <<>> THEN cs
    ELSE UnfreezeLoop(ConnWrite(cs, id, CmdEv("freeze_cube", <<Head(names), FALSE>>), failAt # 1),
                      id, Tail(names), failAt - 1)

UnfreezeStart(dialOk, authOk) ==
    /\ dpc = "idle"
    /\ nops < MaxOps
    /\ nops' = nops + 1
    /\ UNCHANGED <<dcubes, dfails, dhist>>
    /\ IF ~dialOk
       THEN /\ dpc' = "done" /\ dstop' = "connect failed"
            /\ UNCHANGED <<conns, dconn, attempt>>
       ELSE LET id == Len(conns) + 1
                c0 == Authenticate(Dial(conns, "UnfreezeAll", 0), id, authOk)
            IN /\ dconn' = id
               /\ IF ~authOk
                  THEN DestroyEnd(c0, id, "auth failed") /\ UNCHANGED attempt
                  ELSE /\ conns' = HandshakeRead(c0, id)
                       /\ attempt' = 1
                       /\ IF UnfreezeGoesOn(1)
                          THEN dpc' = "urequest" /\ UNCHANGED dstop
                          ELSE dpc' = "done" /\ dstop' = "exhausted"
    /\ UNCHANGED <<cubeName, cubeConn, cubePos, cubeClamp, ret, hist, pulseVars, wireVars>>

UnfreezeRequest(sendOk) ==
    /\ dpc = "urequest"
    /\ LET c0 == ConnWrite(conns, dconn, CmdEv("get_cube_list", <<>>), sendOk)
       IN IF ~sendOk
          THEN DestroyEnd(c0, dconn, "list request failed")
          ELSE conns' = c0 /\ dpc' = "uread" /\ UNCHANGED dstop
    /\ UNCHANGED <<attempt, dconn, dcubes, dfails, dhist>>
    /\ UNCHANGED <<cubeName, cubeConn, cubePos, cubeClamp, ret, nops, hist, pulseVars, wireVars>>

UnfreezeRead(reply) ==
    /\ dpc = "uread"
    /\ dhist' = Append(dhist, reply)
    /\ LET c0 == ConnRead(conns, dconn)
       IN IF ~reply.parse
          THEN DestroyEnd(c0, dconn, "unmarshal error") /\ UNCHANGED dcubes
          ELSE /\ dcubes' = toStringArray(reply.cubes)
               /\ IF Len(dcubes') = 0
                  THEN DestroyEnd(c0, dconn, "empty")
                  ELSE conns' = c0 /\ dpc' = "unfreeze" /\ UNCHANGED dstop
    /\ UNCHANGED <<attempt, dconn, dfails>>
    /\ UNCHANGED <<cubeName, cubeConn, cubePos, cubeClamp, ret, nops, hist, pulseVars, wireVars>>

UnfreezeCubes(failAt) ==
    /\ dpc = "unfreeze"
    /\ failAt = 0 \/ dfails < MaxFail
    /\ dfails' = IF failAt = 0 THEN dfails ELSE dfails + 1
    /\ attempt' = attempt + 1
    /\ LET c0 == UnfreezeLoop(conns, dconn, dcubes, failAt)
       IN IF UnfreezeGoesOn(attempt + 1)
          THEN conns' = c0 /\ dpc' = "urequest" /\ UNCHANGED dstop
          ELSE DestroyEnd(c0, dconn, "exhausted")
    /\ UNCHANGED <<dconn, dcubes, dhist>>
    /\ UNCHANGED <<cubeName, cubeConn, cubePos, cubeClamp, ret, nops, hist, pulseVars, wireVars>>

NextUnfreeze ==
    \/ \E dialOk, authOk \in BOOLEAN : UnfreezeStart(dialOk, authOk)
    \/ \E sendOk \in BOOLEAN : UnfreezeRequest(sendOk)
    \/ \E reply \in DestroyReplies : UnfreezeRead(reply)
    \/ \E failAt \in 0..Len(dcubes) : UnfreezeCubes(failAt)

\* ----------------------------------------------- Construct.StartPulsing
\* The scheduler and the goroutines it launches.  The clock is an input: the
\* loop test time.Now().Before(end) is answered by `expired`.  A goroutine
\* runs PulseWithModel step by step; what the steps put on the connection is
\* the matter of PulseOp above, here a step records that the goroutine has
\* reached it, and the position it stores.
Entries == 1..Len(coll)
\* no network object has been fed, no goroutine has run
NoFeed == [cube |-> 0, pos |-> <<0, 0, 0>>]
Finished(i) ==
    /\ gpc' = [gpc EXCEPT ![i] = "done"]
    /\ wg' = wg - 1

\* wg.Wait returns when the counter is zero
WaitReturnsEarly(n) == n <= 1
WaitReturns(n) == n = 0

PulsingStart ==
    /\ spc = "idle"
    /\ spc' = "check"
    /\ UNCHANGED <<coll, wg, gpc, rounds, started, cubeVars, destroyVars, wireVars, modelVars>>

PulsingCheck(expired) ==
    /\ spc = "check"
    /\ expired \/ rounds < MaxRounds
    /\ spc' = IF expired THEN "returned" ELSE "tick"
    /\ UNCHANGED <<coll, wg, gpc, rounds, started, cubeVars, destroyVars, wireVars, modelVars>>

\* <-ticker.C, wg.Add(len(c.Cubes)) and one go statement per entry
PulsingTick ==
    /\ spc = "tick"
    /\ wg' = wg + Len(coll)
    /\ gpc' = [i \in Entries |-> "start"]
    /\ rounds' = rounds + 1
    /\ spc' = "wait"
    /\ goIn' = [i \in Entries |-> NoFeed]
    /\ goSrc' = [i \in Entries |-> NoFeed]
    /\ UNCHANGED <<cubeModel, modelIn>>
    /\ UNCHANGED <<coll, started, cubeVars, destroyVars, wireVars>>

PulsingWait ==
    /\ spc = "wait"
    /\ WaitReturns(wg)
    /\ spc' = "check"
    /\ UNCHANGED <<coll, wg, gpc, rounds, started, cubeVars, destroyVars, wireVars, modelVars>>

GoBegin(i) ==
    /\ gpc[i] = "start"
    /\ started' = [started EXCEPT ![i] = @ + 1]
    /\ IF cubeConn[coll[i]] = 0
       THEN Finished(i)
       ELSE gpc' = [gpc EXCEPT ![i] = "forward"] /\ UNCHANGED wg
    /\ UNCHANGED <<coll, spc, rounds, cubeVars, destroyVars, wireVars, modelVars>>

\* input := {c.Position...}; c.Model.Forward(input): the network object now
\* holds what it computed from this cube's position
FedBy(i) == [cube |-> coll[i], pos |-> cubePos[coll[i]]]
GoForward(i) ==
    /\ gpc[i] = "forward"
    /\ gpc' = [gpc EXCEPT ![i] = "output"]
    /\ modelIn' = [modelIn EXCEPT ![cubeModel[coll[i]]] = FedBy(i)]
    /\ goIn' = [goIn EXCEPT ![i] = FedBy(i)]
    /\ UNCHANGED <<cubeModel, goSrc>>
    /\ UNCHANGED <<coll, spc, wg, rounds, started, cubeVars, destroyVars, wireVars>>

\* output := c.Model.GetOutput(): what the network object holds at this
\* moment
GoOutput(i, out) ==
    /\ gpc[i] = "output"
    /\ goSrc' = [goSrc EXCEPT ![i] = modelIn[cubeModel[coll[i]]]]
    /\ IF Len(out) < 3
       THEN Finished(i)
       ELSE gpc' = [gpc EXCEPT ![i] = "send"] /\ UNCHANGED wg
    /\ UNCHANGED <<cubeModel, modelIn, goIn>>
    /\ UNCHANGED <<coll, spc, rounds, started, cubeVars, destroyVars, wireVars>>

GoSend(i, sendOk) ==
    /\ gpc[i] = "send"
    /\ IF ~WriteOk(conns, cubeConn[coll[i]], sendOk)
       THEN Finished(i)
       ELSE gpc' = [gpc EXCEPT ![i] = "request"] /\ UNCHANGED wg
    /\ UNCHANGED <<coll, spc, rounds, started, cubeVars, destroyVars, wireVars, modelVars>>

GoRequest(i, sendOk) ==
    /\ gpc[i] = "request"
    /\ IF ~WriteOk(conns, cubeConn[coll[i]], sendOk)
       THEN Finished(i)
       ELSE gpc' = [gpc EXCEPT ![i] = "read"] /\ UNCHANGED wg
    /\ UNCHANGED <<coll, spc, rounds, started, cubeVars, destroyVars, wireVars, modelVars>>

GoRead(i, reply) ==
    /\ gpc[i] = "read"
    /\ cubePos' = [cubePos EXCEPT ![coll[i]] = ParsePosition(@, reply).pos]
    /\ Finished(i)
    /\ UNCHANGED <<coll, spc, rounds, started, destroyVars, wireVars, modelVars>>
    /\ UNCHANGED <<cubeName, cubeConn, cubeClamp, conns, ret, nops, hist>>

\* ------------------------------------------- StartPulsing and the clock
\* Time is counted in tick intervals (time.Second / actionsPerSecond) from
\* the moment StartPulsing is entered, for a rate of one action per second:
\* the ticker fires every second and the read deadline is 3 intervals.  The
\* channel of the ticker holds one tick: a tick that finds it full is
\* dropped.  The steps of the program take no time: the clock advances only
\* while StartPulsing waits for the ticker, or waits for pulses that all
\* wait in readResponse.
readDeadline == 3

\* conn.Read fails once the read deadline d has passed
DeadlineNever(t, d) == FALSE
DeadlinePassed(t, d) == t >= d

Reading(i) == gpc[i] = "read"
Blocked ==
    \/ spc = "tick" /\ tickBuf = 0
    \/ /\ spc = "wait"
       /\ \E i \in Entries : Reading(i) /\ now < gdl[i]
       /\ \A i \in Entries : gpc[i] \in {"read", "done"}

Tock ==
    /\ Blocked
    /\ now' = now + 1
    /\ tickBuf' = 1
    /\ UNCHANGED <<dur, gdl, srvUp>>
    /\ UNCHANGED <<coll, spc, wg, gpc, rounds, started, modelVars>>
    /\ UNCHANGED <<cubeVars, destroyVars, wireVars>>

\* the server stops answering, for good
ServerStops ==
    /\ srvUp
    /\ spc \in {"check", "tick", "wait"}
    /\ srvUp' = FALSE
    /\ UNCHANGED <<now, dur, tickBuf, gdl>>
    /\ UNCHANGED <<coll, spc, wg, gpc, rounds, started, modelVars>>
    /\ UNCHANGED <<cubeVars, destroyVars, wireVars>>

\* for time.Now().Before(end)
TimedCheck == PulsingCheck(now >= dur) /\ UNCHANGED clockVars

\* <-ticker.C
TimedTick ==
    /\ tickBuf = 1
    /\ PulsingTick
    /\ tickBuf' = 0
    /\ UNCHANGED <<now, dur, gdl, srvUp>>

\* readResponse is entered right after the get_cube_state write:
\* conn.SetReadDeadline(time.Now().Add(3 * time.Second))
TimedRequest(i, sendOk) ==
    /\ GoRequest(i, sendOk)
    /\ gdl' = [gdl EXCEPT ![i] = IF gpc'[i] = "read" THEN now + readDeadline ELSE @]
    /\ UNCHANGED <<now, dur, tickBuf, srvUp>>

\* readResponse returns: with the server's answer, or when its deadline has
\* passed
TimedRead(i, reply) ==
    /\ srvUp \/ DeadlinePassed(now, gdl[i])
    /\ GoRead(i, reply)
    /\ gdl' = [gdl EXCEPT ![i] = 0]
    /\ UNCHANGED <<now, dur, tickBuf, srvUp>>

\* ------------------------------------- sendJSONMessage and readResponse
\* The bytes of one connection, from the peer to the reader.  A string is a
\* sequence of characters; "-" is the byte readResponse hands to ReadString.
Dash == "-"
Space == " "

\* strings.Index(s, "-") + 1, 0 when there is none
RECURSIVE IndexDash(_)
IndexDash(s) ==
    IF s = <<>> THEN 0
    ELSE IF Head(s) = Dash THEN 1
         ELSE LET k == IndexDash(Tail(s)) IN IF k = 0 THEN 0 ELSE k + 1

HasPrefix(s, d) == Len(s) >= Len(d) /\ SubSeq(s, 1, Len(d)) = d

\* strings.Contains(s, d)
RECURSIVE Contains(_, _)
Contains(s, d) ==
    IF Len(s) < Len(d) THEN FALSE
    ELSE HasPrefix(s, d) \/ Contains(Tail(s), d)

\* strings.ReplaceAll(s, d, ""): the occurrences from the left, not overlapping
RECURSIVE ReplaceAll(_, _)
ReplaceAll(s, d) ==
    IF Len(s) < Len(d) THEN s
    ELSE IF HasPrefix(s, d) THEN ReplaceAll(SubSeq(s, Len(d) + 1, Len(s)), d)
         ELSE <<Head(s)>> \o ReplaceAll(Tail(s), d)

\* strings.TrimSpace
RECURSIVE TrimLeft(_)
TrimLeft(s) == IF s # <<>> /\ Head(s) = Space THEN TrimLeft(Tail(s)) ELSE s
RECURSIVE TrimRight(_)
TrimRight(s) ==
    IF s # <<>> /\ s[Len(s)] = Space THEN TrimRight(SubSeq(s, 1, Len(s) - 1)) ELSE s
TrimSpace(s) == TrimRight(TrimLeft(s))

\* sendJSONMessage: the serialized message with the delimiter appended
sendJSONMessage(data, delimiter) == data \o delimiter

\* the peer sends message m with sendJSONMessage
PeerSend(m, limit) ==
    /\ Len(sentLog) < limit
    /\ wire' = wire \o sendJSONMessage(m, delim)
    /\ sentLog' = Append(sentLog, m)
    /\ UNCHANGED <<delim, rbuf, builder, rpc, got, results, rstop>>
    /\ UNCHANGED <<cubeVars, destroyVars, pulseVars>>

\* readResponse is entered: a new bufio.Reader, the read deadline is set,
\* an empty builder
ReadStart(limit) ==
    /\ rpc \in {"idle", "done"}
    /\ Len(results) < limit
    /\ rpc' = "loop"
    /\ rbuf' = <<>> /\ builder' = <<>> /\ got' = <<>> /\ rstop' = "reading"
    /\ UNCHANGED <<delim, wire, results, sentLog>>
    /\ UNCHANGED <<cubeVars, destroyVars, pulseVars>>

\* ReadString('-') finds no '-' in what the reader holds and reads the
\* connection: conn.Read returns the first n bytes in flight
ReadFill(n) ==
    /\ rpc = "loop"
    /\ IndexDash(rbuf) = 0
    /\ n \in 1..Len(wire)
    /\ rbuf' = rbuf \o SubSeq(wire, 1, n)
    /\ got' = got \o SubSeq(wire, 1, n)
    /\ wire' = SubSeq(wire, n + 1, Len(wire))
    /\ UNCHANGED <<delim, builder, rpc, results, rstop, sentLog>>
    /\ UNCHANGED <<cubeVars, destroyVars, pulseVars>>

\* the return of readResponse: every occurrence of the delimiter is removed
\* from the builder, the rest is trimmed; the reader is dropped with
\* whatever it holds
ReadReturn(b, why) ==
    /\ rpc' = "done"
    /\ results' = Append(results, TrimSpace(ReplaceAll(b, delim)))
    /\ rstop' = why
    /\ rbuf' = <<>>
    /\ builder' = b

\* ReadString('-') returns a line, the bytes up to the first '-' and that
\* '-'; it goes to the builder, and the loop ends when the line contains
\* the delimiter
LineEnds(line, d) == Contains(line, d)
ReadLine ==
    /\ rpc = "loop"
    /\ IndexDash(rbuf) > 0
    /\ LET k == IndexDash(rbuf)
           line == SubSeq(rbuf, 1, k)
       IN IF LineEnds(line, delim)
          THEN ReadReturn(builder \o line, "delimiter")
          ELSE /\ builder' = builder \o line
               /\ rbuf' = SubSeq(rbuf, k + 1, Len(rbuf))
               /\ UNCHANGED <<rpc, results, rstop>>
    /\ UNCHANGED <<delim, wire, got, sentLog>>
    /\ UNCHANGED <<cubeVars, destroyVars, pulseVars>>

\* ReadString('-') returns an error (the deadline has passed, or the
\* connection failed) while it has no '-': the loop ends, and what
\* ReadString returned with the error is not written to the builder
ReadError ==
    /\ rpc = "loop"
    /\ IndexDash(rbuf) = 0
    /\ ReadReturn(builder, "deadline")
    /\ UNCHANGED <<delim, wire, got, sentLog>>
    /\ UNCHANGED <<cubeVars, destroyVars, pulseVars>>

\* ------------------------------------------------------------ the inputs
Outputs == { <<0, 0>>, <<2, 0, -2, 2>> }
ListReplies == { Garbage, NoKeyObj, ListObj(<<Str(1), NotStr, Str(2)>>) }
PulseReplies == { Garbage, StateObj(<<Num(1), Num(2), Num(1)>>) }
OutVals == (0 - MaxOut)..MaxOut
ClampOutputs ==
    UNION { [1..n -> OutVals] : n \in 2..4 }
ClampChoices == ((0 - MaxClamp)..MaxClamp) \X ((0 - MaxClamp)..MaxClamp)
\* the canonical inputs of a dial / handshake / command sequence: what
\* follows a failed step is never looked at
Canon(dialOk, authOk, sendOk) == (dialOk \/ ~authOk) /\ (authOk \/ ~sendOk)

OrigName(c) == <<c>>
InitPos == <<0, 0, 0>>
NoRet == [op |-> "none", cube |-> 1, err |-> "nil", out |-> <<>>,
          life |-> "Unspawned", name0 |-> <<>>, pos0 |-> InitPos, io |-> 0,
          reply |-> NoKeyObj]
NoHist == [spawns |-> 0, spawnFails |-> 0, despawned |-> FALSE, ioerr |-> FALSE]

\* NewCube for every handle: nothing spawned, nothing dialled
Fresh ==
    [name |-> [c \in CubeIds |-> OrigName(c)],
     conn |-> [c \in CubeIds |-> 0],
     pos |-> [c \in CubeIds |-> InitPos],
     conns |-> <<>>]

\* the world after Spawn has succeeded on the cubes 1..k, in that order
RECURSIVE SpawnedUpTo(_)
SpawnedUpTo(k) ==
    IF k = 0 THEN Fresh ELSE SpawnOp(SpawnedUpTo(k - 1), k, TRUE, TRUE, TRUE).w

InitWorld(w, k) ==
    /\ cubeName = w.name
    /\ cubeConn = w.conn
    /\ cubePos = w.pos
    /\ conns = w.conns
    /\ ret = NoRet
    /\ nops = 0
    /\ hist = [c \in CubeIds |-> [NoHist EXCEPT !.spawns = IF c <= k THEN 1 ELSE 0]]

InitDestroyIdle ==
    /\ dpc = "idle" /\ attempt = 0 /\ dconn = 0 /\ dcubes = <<>> /\ dfails = 0
    /\ dhist = <<>> /\ dstop = "running"

InitModels ==
    /\ modelIn = [m \in CubeIds |-> NoFeed]
    /\ goIn = [i \in 1..Len(coll) |-> NoFeed]
    /\ goSrc = [i \in 1..Len(coll) |-> NoFeed]

InitClockIdle ==
    /\ now = 0 /\ dur = 0 /\ tickBuf = 0 /\ srvUp = TRUE
    /\ gdl = [i \in 1..Len(coll) |-> 0]

InitPulseIdle ==
    /\ coll = <<>> /\ spc = "idle" /\ wg = 0 /\ gpc = <<>> /\ rounds = 0
    /\ started = <<>>
    /\ cubeModel = [c \in CubeIds |-> c]
    /\ InitModels
    /\ InitClockIdle

InitWireIdle ==
    /\ delim = <<Dash>> /\ wire = <<>> /\ rbuf = <<>> /\ builder = <<>>
    /\ rpc = "idle" /\ got = <<>> /\ results = <<>> /\ rstop = "idle"
    /\ sentLog = <<>>

\* ---------------------------------------------------- the specifications
\* Spec: the sequential client, any calls in any order.
Init ==
    /\ InitWorld(Fresh, 0)
    /\ cubeClamp = [c \in CubeIds |-> <<-1, 1>>]
    /\ InitDestroyIdle
    /\ InitPulseIdle
    /\ InitWireIdle

SpawnCall ==
    \E c \in CubeIds, dialOk, authOk, sendOk \in BOOLEAN :
       Canon(dialOk, authOk, sendOk) /\ Spawn(c, dialOk, authOk, sendOk)
DespawnCall ==
    \E c \in CubeIds, dialOk, authOk, sendOk \in BOOLEAN :
       Canon(dialOk, authOk, sendOk) /\ Despawn(c, dialOk, authOk, sendOk)
GetAllCubeNamesCall ==
    \E dialOk, authOk, sendOk \in BOOLEAN, reply \in ListReplies :
       Canon(dialOk, authOk, sendOk) /\ GetAllCubeNames(dialOk, authOk, sendOk, reply)
DestroyCall == \E dialOk, authOk \in BOOLEAN : DestroyStart(dialOk, authOk)
UnfreezeCall == \E dialOk, authOk \in BOOLEAN : UnfreezeStart(dialOk, authOk)

OpenOps == SpawnCall \/ DespawnCall \/ GetAllCubeNamesCall \/ DestroyCall \/ UnfreezeCall

UseOps ==
    \/ \E c \in CubeIds, sendOk \in BOOLEAN, reply \in StateReplies :
          RefreshPosition(c, sendOk, reply)
    \/ \E c \in CubeIds, out \in Outputs, sendOk, rsendOk \in BOOLEAN,
          reply \in StateReplies :
          PulseWithModel(c, out, sendOk, rsendOk, reply)
    \/ \E sendOk \in BOOLEAN : DestroyRequest(sendOk)
    \/ \E reply \in ListReplies : DestroyRead(reply)
    \/ \E failAt \in 0..Len(dcubes) : DestroyDespawn(failAt)
    \/ \E sendOk \in BOOLEAN : UnfreezeRequest(sendOk)
    \/ \E reply \in ListReplies : UnfreezeRead(reply)
    \/ \E failAt \in 0..Len(dcubes) : UnfreezeCubes(failAt)

Next == OpenOps \/ UseOps

Spec == Init /\ [][Next]_vars

\* SpecSession: the life of one connection.  One operation dials, and the
\* calls that follow use what it left.
NextSession ==
    \/ conns = <<>> /\ SpawnCall
    \/ conns = <<>> /\ DespawnCall
    \/ conns = <<>> /\ GetAllCubeNamesCall
    \/ conns = <<>> /\ DestroyCall
    \/ conns = <<>> /\ UnfreezeCall
    \/ UseOps

SpecSession == Init /\ [][NextSession]_vars

\* SpecDestroy: one DestroyAllCubes call against any server.
SpecDestroy == Init /\ [][NextDestroy]_vars

\* SpecUnfreeze: one UnfreezeAll call against any server.
SpecUnfreeze == Init /\ [][NextUnfreeze]_vars

\* SpecClamp: one PulseWithModel on an Active cube, for every clamp range
\* and every decision-function output within the bounds.
InitClamp ==
    /\ InitWorld(SpawnedUpTo(1), 1)
    /\ cubeClamp \in [CubeIds -> ClampChoices]
    /\ \A c \in CubeIds : cubeClamp[c] = cubeClamp[1]
    /\ InitDestroyIdle
    /\ InitPulseIdle
    /\ InitWireIdle

NextClamp ==
    /\ ret.op = "none"
    /\ \E out \in ClampOutputs, sendOk \in BOOLEAN :
          PulseWithModel(1, out, sendOk, TRUE, StateObj(<<Num(1), Num(2), Num(1)>>))

SpecClamp == InitClamp /\ [][NextClamp]_vars

\* SpecPulse: one StartPulsing run over a collection that may list a handle
\* more than once, the cubes 1..k spawned beforehand.
Colls == UNION { [1..n -> CubeIds] : n \in 1..MaxColl }
\* the bindings NewCube can make: a network object of its own for a cube, or
\* the object of an earlier cube
Bindings == { b \in [CubeIds -> CubeIds] : \A c \in CubeIds : b[c] <= c }

InitPulse ==
    /\ \E k \in 0..NumCubes : InitWorld(SpawnedUpTo(k), k)
    /\ cubeClamp = [c \in CubeIds |-> <<-1, 1>>]
    /\ InitDestroyIdle
    /\ coll \in Colls
    /\ spc = "idle" /\ wg = 0 /\ rounds = 0
    /\ gpc = [i \in 1..Len(coll) |-> "idle"]
    /\ started = [i \in 1..Len(coll) |-> 0]
    /\ cubeModel = [c \in CubeIds |-> c]
    /\ InitModels
    /\ InitClockIdle
    /\ InitWireIdle

NextPulse ==
    \/ PulsingStart /\ UNCHANGED clockVars
    \/ \E expired \in BOOLEAN : PulsingCheck(expired) /\ UNCHANGED clockVars
    \/ PulsingTick /\ UNCHANGED clockVars
    \/ PulsingWait /\ UNCHANGED clockVars
    \/ \E i \in Entries : GoBegin(i) /\ UNCHANGED clockVars
    \/ \E i \in Entries : GoForward(i) /\ UNCHANGED clockVars
    \/ \E i \in Entries, out \in Outputs : GoOutput(i, out) /\ UNCHANGED clockVars
    \/ \E i \in Entries, sendOk \in BOOLEAN : GoSend(i, sendOk) /\ UNCHANGED clockVars
    \/ \E i \in Entries, sendOk \in BOOLEAN : GoRequest(i, sendOk) /\ UNCHANGED clockVars
    \/ \E i \in Entries, reply \in PulseReplies : GoRead(i, reply) /\ UNCHANGED clockVars

SpecPulse == InitPulse /\ [][NextPulse]_vars

\* SpecShared: one StartPulsing run over all the cubes, spawned, each bound
\* to a network object of its own or to that of an earlier cube.
InitShared ==
    /\ InitWorld(SpawnedUpTo(NumCubes), NumCubes)
    /\ cubeClamp = [c \in CubeIds |-> <<-1, 1>>]
    /\ InitDestroyIdle
    /\ coll = [i \in CubeIds |-> i]
    /\ spc = "idle" /\ wg = 0 /\ rounds = 0
    /\ gpc = [i \in 1..Len(coll) |-> "idle"]
    /\ started = [i \in 1..Len(coll) |-> 0]
    /\ cubeModel \in Bindings
    /\ InitModels
    /\ InitClockIdle
    /\ InitWireIdle

SpecShared == InitShared /\ [][NextPulse]_vars

\* SpecFrame: one connection with any delimiter; the peer sends messages
\* that do not contain it, each with sendJSONMessage, and readResponse is
\* called on the other end while the bytes arrive in any pieces.
DelimChars == {Dash, "d"}
MsgChars == {Dash, Space, "x"}
Delims == UNION { [1..n -> DelimChars] : n \in 1..MaxDelim }
Msgs == UNION { [1..n -> MsgChars] : n \in 1..MaxMsg }

InitFrame ==
    /\ InitWorld(Fresh, 0)
    /\ cubeClamp = [c \in CubeIds |-> <<-1, 1>>]
    /\ InitDestroyIdle
    /\ InitPulseIdle
    /\ delim \in Delims
    /\ wire = <<>> /\ rbuf = <<>> /\ builder = <<>>
    /\ rpc = "idle" /\ got = <<>> /\ results = <<>> /\ rstop = "idle"
    /\ sentLog = <<>>

NextFrame ==
    \/ \E m \in Msgs : ~Contains(m, delim) /\ PeerSend(m, MaxSends)
    \/ ReadStart(MaxRecv)
    \/ \E n \in 1..Len(wire) : ReadFill(n)
    \/ ReadLine
    \/ ReadError

SpecFrame == InitFrame /\ [][NextFrame]_vars


\* SpecTicker: one StartPulsing run with its clock, over spawned cubes, for
\* every duration within the bounds, a server that answers after any time
\* and may stop answering.  The Go scheduler runs every goroutine
\* that can run, and time passes.
\* what a readResponse of the run yields: nothing that parses, or the state of
\* a cube that has not moved
TickReplies == { Garbage, StateObj(<<Num(0), Num(0), Num(0)>>) }
\* the collections of the run: the first n cubes, each once
TickColls == { [i \in 1..n |-> i] : n \in 1..NumCubes }

InitTicker ==
    /\ InitWorld(SpawnedUpTo(NumCubes), NumCubes)
    /\ cubeClamp = [c \in CubeIds |-> <<-1, 1>>]
    /\ InitDestroyIdle
    /\ coll \in TickColls
    /\ spc = "idle" /\ wg = 0 /\ rounds = 0
    /\ gpc = [i \in 1..Len(coll) |-> "idle"]
    /\ started = [i \in 1..Len(coll) |-> 0]
    /\ cubeModel = [c \in CubeIds |-> c]
    /\ InitModels
    /\ now = 0 /\ tickBuf = 0 /\ srvUp = TRUE
    /\ dur \in 1..MaxRounds
    /\ gdl = [i \in 1..Len(coll) |-> 0]
    /\ InitWireIdle

NextRun ==
    \/ Tock
    \/ PulsingStart /\ UNCHANGED clockVars
    \/ TimedCheck
    \/ TimedTick
    \/ PulsingWait /\ UNCHANGED clockVars
    \/ \E i \in Entries : GoBegin(i) /\ UNCHANGED clockVars
    \/ \E i \in Entries : GoForward(i) /\ UNCHANGED clockVars
    \/ \E i \in Entries, out \in Outputs : GoOutput(i, out) /\ UNCHANGED clockVars
    \/ \E i \in Entries, sendOk \in BOOLEAN : GoSend(i, sendOk) /\ UNCHANGED clockVars
    \/ \E i \in Entries, sendOk \in BOOLEAN : TimedRequest(i, sendOk)
    \/ \E i \in Entries, reply \in TickReplies : TimedRead(i, reply)

NextTicker == NextRun \/ ServerStops

SpecTicker == InitTicker /\ [][NextTicker]_vars /\ WF_vars(NextRun)

\* ------------------------------------------------------------ the claims
Last(q) == q[Len(q)]
LogOf(c) == conns[cubeConn[c]].log

\* C1 (SpecPulse).  Tick barrier: every round begins exactly one pulse per
\* entry of the collection, and between two rounds and at the return of
\* StartPulsing no pulse of an earlier round is running: every entry has
\* begun as many pulses as rounds were launched and has finished them all.
Running(i) == gpc[i] \notin {"idle", "done"}
C1_TickBarrier ==
    /\ spc \in {"check", "tick", "returned"} =>
          \A i \in Entries : ~Running(i) /\ started[i] = rounds
    /\ spc = "wait" =>
          \A i \in Entries :
             started[i] = IF gpc[i] = "start" THEN rounds - 1 ELSE rounds
    /\ wg = Cardinality({i \in Entries : Running(i)})
C1_Witness ==
    /\ spc = "returned" /\ rounds >= 2 /\ Len(coll) >= 2
    /\ \A i \in Entries : started[i] = 2
    /\ \E i \in Entries : cubePos[coll[i]] # InitPos

\* C2 (SpecPulse).  Single-writer connection: two goroutines never are inside
\* PulseWithModel, past its nil test, for the same cube handle at once.
InPulse(i) == gpc[i] \in {"forward", "output", "send", "request", "read"}
C2_SingleWriter ==
    \A i, j \in Entries :
       (i # j /\ coll[i] = coll[j]) => ~(InPulse(i) /\ InPulse(j))

\* C3 (Spec).  Lifecycle gate: a PulseWithModel or RefreshPosition on a cube
\* that was Unspawned or Terminated when called returns the no-connection
\* error and puts nothing on any connection.
C3_LifecycleGate ==
    (ret.op \in {"PulseWithModel", "RefreshPosition"}
       /\ ret.life \in {"Unspawned", "Terminated"})
    => (ret.err = "no connection" /\ ret.io = 0)

\* C4 (Spec).  Failed Spawn: after a Spawn that returned an error on a cube no
\* Spawn had succeeded on, the cube holds no connection, its name is what it
\* was, and no connection a Spawn dialled for it is open.
C4_FailedSpawn ==
    (ret.op = "Spawn" /\ ret.err # "nil" /\ ret.life = "Unspawned")
    => /\ cubeConn[ret.cube] = 0
       /\ cubeName[ret.cube] = ret.name0
       /\ \A i \in 1..Len(conns) :
             (conns[i].by = "Spawn" /\ conns[i].cube = ret.cube) => ~conns[i].open

\* C5 (Spec).  Spawn renaming and connection uniqueness: once a Spawn has
\* succeeded on a cube, its name is the original name followed by the
\* suffix once, and exactly one connection dialled by Spawn for it is open.
OpenSpawnConns(c) ==
    {i \in 1..Len(conns) : conns[i].by = "Spawn" /\ conns[i].cube = c /\ conns[i].open}
C5_SpawnOnce ==
    \A c \in CubeIds :
       hist[c].spawns > 0 =>
          /\ cubeName[c] = OrigName(c) \o <<Suffix>>
          /\ Cardinality(OpenSpawnConns(c)) = 1

\* C6 (SpecSession).  Handshake first and once: on every connection, the
\* first thing written is the secret, it is written nowhere else, one
\* receive follows it, and what follows that receive is a command (so no
\* command goes out before the receive, and no second receive before the
\* first command); after a failed secret write nothing more happens.
Dialers == {"Spawn", "Despawn", "GetAllCubeNames", "UnfreezeAll", "DestroyAllCubes"}
HandshakeDone(log) ==
    /\ Len(log) >= 1
    /\ log[1].kind = "auth"
    /\ \A k \in 2..Len(log) : log[k].kind # "auth"
    /\ Len(log) >= 2 => (log[1].ok /\ log[2].kind = "recv")
    /\ Len(log) >= 3 => log[3].kind = "cmd"
C6_Handshake ==
    \A i \in 1..Len(conns) : conns[i].by \in Dialers /\ HandshakeDone(conns[i].log)
C6_Witness ==
    \E i \in 1..Len(conns) :
       /\ conns[i].by = "Spawn"
       /\ Len(conns[i].log) >= 6
       /\ Last(conns[i].log).kind = "recv"

\* C7 (SpecClamp).  Clamp correctness: when ClampMin <= ClampMax and the
\* decision function returned at least three components, the three
\* components of the apply_force written lie in [ClampMin, ClampMax], equal
\* the first three raw components where those are in the range, and equal
\* the nearer bound otherwise.
Forces(c) == SelectSeq(LogOf(c), LAMBDA e : e.type = "apply_force")
Clamped(f, v, lo, hi) ==
    /\ lo <= f /\ f <= hi
    /\ (lo <= v /\ v <= hi) => f = v
    /\ v > hi => f = hi
    /\ v < lo => f = lo
C7_Clamp ==
    (ret.op = "PulseWithModel" /\ Len(ret.out) >= 3
       /\ cubeClamp[ret.cube][1] <= cubeClamp[ret.cube][2])
    => /\ Len(Forces(ret.cube)) = 1
       /\ LET f == Forces(ret.cube)[1].arg
          IN /\ DOMAIN f = 1..3
             /\ \A i \in 1..3 :
                   Clamped(f[i], ret.out[i], cubeClamp[ret.cube][1], cubeClamp[ret.cube][2])
C7_Witness ==
    /\ ret.op = "PulseWithModel" /\ ret.err = "nil"
    /\ cubeClamp[1] = <<-1, 1>>
    /\ ret.out = <<2, 0, -2, 2>>
    /\ Forces(1)[1].arg = <<1, 0, -1>>

\* What the server was asked and what it answered, for C8 to C10.
DLog == conns[dconn].log
Authenticated == dconn # 0 /\ Len(DLog) >= 2
ListLen(r) == Len(toStringArray(r.cubes))
AllStrings(r) == ListLen(r) = Len(r.cubes)
Requests == SelectSeq(DLog, LAMBDA e : e.type = "get_cube_list")
AllDelivered == \A k \in 1..Len(Requests) : Requests[k].ok
Shape(log) == [k \in 1..Len(log) |-> <<log[k].kind, log[k].type, log[k].arg>>]
DespawnsFor(names) == [k \in 1..Len(names) |-> <<"cmd", "despawn_cube", <<names[k]>>>>]
RECURSIVE Passes(_)
Passes(h) ==
    IF h = <<>> THEN <<>>
    ELSE <<<<"cmd", "get_cube_list", <<>>>>, <<"recv", "", <<>>>>>>
         \o DespawnsFor(toStringArray(Head(h).cubes)) \o Passes(Tail(h))

\* C8 (SpecDestroy).  Destroy exhaustion: when every get_cube_list reached
\* the server and every answer was a non-empty list of names, a finished
\* DestroyAllCubes has made 5 passes: its connection carries, after the
\* handshake, 5 times a get_cube_list, its receive and one despawn_cube for
\* each name of the answer, in order, and nothing else; and it is closed.
AllNonEmpty == \A k \in 1..Len(dhist) : dhist[k].parse /\ ListLen(dhist[k]) > 0
C8_Exhaustion ==
    /\ Len(dhist) <= 5
    /\ (dpc = "done" /\ Authenticated /\ AllDelivered /\ AllNonEmpty)
       => /\ Len(dhist) = 5
          /\ Len(Requests) = 5
          /\ Shape(DLog) =
               <<<<"auth", "secret+delimiter", <<>>>>, <<"recv", "", <<>>>>>> \o Passes(dhist)
          /\ ~conns[dconn].open
C8_Witness ==
    /\ dpc = "done" /\ Authenticated /\ AllDelivered /\ AllNonEmpty
    /\ Len(dhist) = 5 /\ dfails > 0
    /\ ListLen(dhist[1]) = 1 /\ ListLen(dhist[5]) = 3

\* C9 (SpecDestroy).  Destroy convergence, as claimed: against a server whose
\* list of names strictly shrinks from one get_cube_list to the next, a
\* finished DestroyAllCubes has seen the empty list, within its 5 attempts.
Shrinking ==
    \A k \in 1..Len(dhist) :
       /\ dhist[k].parse /\ AllStrings(dhist[k])
       /\ k > 1 => ListLen(dhist[k]) < ListLen(dhist[k - 1])
C9_Original ==
    (dpc = "done" /\ Authenticated /\ AllDelivered /\ Shrinking /\ dhist # <<>>)
    => (Last(dhist).cubes = <<>> /\ Len(dhist) <= 5)
\* C9 as amended: the same for a first list of fewer than 5 names.
C9_Convergence ==
    (dpc = "done" /\ Authenticated /\ AllDelivered /\ Shrinking /\ dhist # <<>>
       /\ ListLen(dhist[1]) < 5)
    => (Last(dhist).cubes = <<>> /\ Len(dhist) <= 5 /\ dcubes = <<>>)
C9_Witness ==
    /\ dpc = "done" /\ Authenticated /\ AllDelivered /\ Shrinking
    /\ Len(dhist) = 5 /\ ListLen(dhist[1]) = 4 /\ Last(dhist).cubes = <<>>
    /\ dfails > 0

\* C10 (SpecDestroy).  Destroy stopping condition, as claimed: a
\* DestroyAllCubes that got through the handshake has stopped only after
\* reading a list without names, or after the despawn_cube writes of its
\* 5th pass.
StoppedOnEmpty ==
    /\ Last(DLog).kind = "recv" /\ dhist # <<>>
    /\ Last(dhist).parse /\ ListLen(Last(dhist)) = 0
StoppedOnBudget ==
    /\ Last(DLog).type = "despawn_cube" /\ Len(dhist) = 5
StoppedOnRequest ==
    /\ Last(DLog).type = "get_cube_list" /\ ~Last(DLog).ok
StoppedOnParse ==
    /\ Last(DLog).kind = "recv" /\ dhist # <<>> /\ ~Last(dhist).parse
C10_Original ==
    (dpc = "done" /\ Authenticated) => (StoppedOnEmpty \/ StoppedOnBudget)
\* C10 as amended: or after a get_cube_list write that failed, or after
\* reading a response that is no JSON object; never after a despawn_cube
\* write of an earlier pass.
C10_Stopping ==
    (dpc = "done" /\ Authenticated)
    => (StoppedOnEmpty \/ StoppedOnBudget \/ StoppedOnRequest \/ StoppedOnParse)
C10_Witness ==
    /\ dpc = "done" /\ Authenticated /\ StoppedOnBudget
    /\ \E k \in 1..Len(DLog) :
          DLog[k].type = "despawn_cube" /\ ~DLog[k].ok /\ k < 6

\* C11 (SpecUnfreeze).  UnfreezeAll attempts: UnfreezeAll writes at most 3
\* get_cube_list requests; what its connection carries after the handshake
\* is, for every response read, the request, its receive and one freeze_cube
\* with freeze = false for each name of the response, in list order, whether
\* or not one of those writes failed; a response without names is the last
\* one read and no freeze_cube follows it.
FreezesFor(names) == [k \in 1..Len(names) |-> <<"cmd", "freeze_cube", <<names[k], FALSE>>>>]
RECURSIVE UPasses(_)
UPasses(h) ==
    IF h = <<>> THEN <<>>
    ELSE <<<<"cmd", "get_cube_list", <<>>>>, <<"recv", "", <<>>>>>>
         \o FreezesFor(toStringArray(Head(h).cubes)) \o UPasses(Tail(h))
UnfreezeDone == dpc = "done" /\ Authenticated /\ conns[dconn].by = "UnfreezeAll"
C11_UnfreezeAttempts ==
    /\ dconn # 0 => Len(Requests) <= 3
    /\ UnfreezeDone =>
          /\ Shape(DLog) =
                <<<<"auth", "secret+delimiter", <<>>>>, <<"recv", "", <<>>>>>>
                \o UPasses(dhist)
                \o (IF dstop = "list request failed"
                    THEN <<<<"cmd", "get_cube_list", <<>>>>>> ELSE <<>>)
          /\ \A k \in 1..Len(dhist) :
                ListLen(dhist[k]) = 0 =>
                   (k = Len(dhist) /\ dstop \in {"empty", "unmarshal error"})
C11_Witness ==
    /\ UnfreezeDone /\ dstop = "exhausted" /\ Len(dhist) = 3
    /\ ListLen(dhist[1]) = 3
    /\ ~DLog[5].ok /\ DLog[6].ok /\ DLog[7].ok

\* C12 (SpecFrame).  Framing round-trip: when the peer has sent one message
\* that does not contain the delimiter, and a readResponse that was handed
\* every byte of it has returned, the string returned is the message (up to
\* the white space around it).
C12_RoundTrip ==
    (rpc = "done" /\ Len(sentLog) = 1 /\ Len(results) = 1
       /\ got = sendJSONMessage(sentLog[1], delim))
    => results[1] = TrimSpace(sentLog[1])

\* C13 (SpecFrame).  Receive completes on the delimiter: a readResponse that
\* was handed bytes containing the delimiter has returned because of the
\* delimiter, not because of the deadline or a connection error, and it
\* returned the accumulated bytes without the delimiter, trimmed.
C13_DelimiterEnds ==
    (rpc = "done" /\ Contains(got, delim))
    => /\ rstop = "delimiter"
       /\ Last(results) = TrimSpace(ReplaceAll(builder, delim))

\* C14 (SpecFrame).  Timeout returns the partial buffer: a readResponse
\* ended by the deadline or a connection error before any delimiter was
\* received returns every byte it was handed, trimmed.
C14_TimeoutPartial ==
    (rpc = "done" /\ rstop = "deadline" /\ ~Contains(got, delim))
    => Last(results) = TrimSpace(got)

\* C15 (Spec).  RefreshPosition result: a RefreshPosition that has read a
\* response returns nil exactly when the response is an object whose
\* position is an array of 3 numbers, and then the local position is that
\* array; for an object whose position is missing, has another length or
\* holds an element that is no number it returns the shape-mismatch error.
Numeric3(r) ==
    /\ r.parse /\ r.hasPos /\ Len(r.position) = 3
    /\ \A i \in 1..3 : r.position[i].num
C15_RefreshResult ==
    (ret.op = "RefreshPosition" /\ ret.err \in ReadResults)
    => /\ ret.err = "nil" <=> Numeric3(ret.reply)
       /\ ret.err = "nil" =>
             \A i \in 1..3 : cubePos[ret.cube][i] = ret.reply.position[i].v
       /\ (ret.reply.parse /\ ~Numeric3(ret.reply)) => ret.err = "invalid position format"

\* C16 (SpecTicker).  No tick is skipped: a StartPulsing run over dur tick
\* intervals has launched dur rounds of pulses, give or take one, when it
\* returns.
C16_NoTickSkipped ==
    spc = "returned" => (rounds >= dur - 1 /\ rounds <= dur + 1)

Refreshed(c) ==
    /\ ret'.op \in {"RefreshPosition", "PulseWithModel"}
    /\ ret'.cube = c
    /\ ret'.err = "nil"
    /\ nops' = nops + 1
    /\ ret'.reply.parse
    /\ Last(conns'[cubeConn[c]].log).kind = "recv"
C17_PositionFrame ==
    [][\A c \in CubeIds : cubePos'[c] # cubePos[c] => Refreshed(c)]_vars
C17_Witness ==
    /\ ret.op = "PulseWithModel" /\ ret.err = "invalid position format"
    /\ ret.io = 3
    /\ cubePos[ret.cube] = <<1, 2, 1>>

\* C18 (SpecSession).  Pulse ordering without retry: what one PulseWithModel
\* on an Active cube puts on the owned connection is nothing when the
\* decision function returned fewer than 3 outputs, and otherwise one
\* apply_force, then, only if that write succeeded, one get_cube_state,
\* then, only if that write succeeded, one receive; the error returned is
\* that of the first step that failed.
Done(n) == SubSeq(LogOf(ret.cube), Len(LogOf(ret.cube)) - n + 1, Len(LogOf(ret.cube)))
C18_PulseOrder ==
    (ret.op = "PulseWithModel" /\ ret.life = "Active")
    => /\ ret.io <= Len(LogOf(ret.cube)) /\ ret.io <= 3
       /\ Len(ret.out) < 3 => (ret.io = 0 /\ ret.err = "model output too short")
       /\ Len(ret.out) >= 3 =>
            /\ ret.io >= 1
            /\ Done(ret.io)[1].type = "apply_force"
            /\ ~Done(ret.io)[1].ok => (ret.io = 1 /\ ret.err = "apply_force failed")
            /\ Done(ret.io)[1].ok =>
                 /\ ret.io >= 2
                 /\ Done(ret.io)[2].type = "get_cube_state"
                 /\ ~Done(ret.io)[2].ok => (ret.io = 2 /\ ret.err = "state request failed")
                 /\ Done(ret.io)[2].ok =>
                      (ret.io = 3 /\ Done(3)[3].kind = "recv" /\ ret.err \in ReadResults)
C18_Witness ==
    /\ ret.op = "PulseWithModel" /\ ret.life = "Active"
    /\ ret.err = "state request failed" /\ ret.io = 2
    /\ Len(LogOf(ret.cube)) = 8

\* C20 (SpecShared).  Shared decision function: the output a pulse clamps and
\* sends is the one the network computed from the input this pulse gave to
\* Forward, whatever network objects the cubes are bound to.
C20_OwnOutput ==
    \A i \in Entries :
       gpc[i] \in {"send", "request", "read"} => goSrc[i].pos = goIn[i].pos

\* C21 (SpecFrame).  Consecutive receives: when the peer has sent two
\* messages on the connection, every byte of them has been read from the
\* connection by two calls of readResponse, the first call returned the
\* first message (one that is not blank) and the second call ended on a
\* delimiter, the second call returned the second message: no byte that
\* arrived behind the first delimiter is lost between the calls.
C21_ConsecutiveReceives ==
    (rpc = "done" /\ rstop = "delimiter" /\ wire = <<>>
       /\ Len(sentLog) = 2 /\ Len(results) = 2
       /\ results[1] = TrimSpace(sentLog[1]) /\ results[1] # <<>>)
    => results[2] = TrimSpace(sentLog[2])

====
